---- MODULE Spec2Model ----
(***************************************************************************)
(* p3d-si: a scalar magnitude (f64) tagged at compile time with a          *)
(* dimension descriptor Unit {length, mass, time}.  The model keeps the    *)
(* descriptor beside the magnitude so that the type-level rules of the     *)
(* operators (src/src/lib.rs) can be checked together with the magnitude   *)
(* arithmetic.  The compiler's part (type equality, constant evaluation of *)
(* the descriptor algebra) is modelled by the `build` variable.            *)
(***************************************************************************)
EXTENDS Integers, Sequences, FiniteSets, TLC

(***************************************************************************)
(* Bounds.  i64 is scaled down to IntBits bits, f64 to a binary floating   *)
(* point format with MantBits bits of precision and ExpSpan+1 binades      *)
(* (subnormals, signed zeros, infinities and one NaN are kept).            *)
(***************************************************************************)
IntBits == 4
MantBits == 3
ExpSpan == 2
MaxSteps == 2

RECURSIVE Pow2(_)
Pow2(n) == IF n <= 0 THEN 1 ELSE 2 * Pow2(n - 1)

Abs(n) == IF n < 0 THEN -n ELSE n
MinOf(S) == CHOOSE r \in S : \A s \in S : r <= s

(***************************************************************************)
(* i64 exponents.  The descriptor algebra is only ever evaluated by the    *)
(* compiler (const generic arguments).  Unit::add, sub and neg are const   *)
(* fns: built with overflow checks (debug profile) an overflowing +, - or  *)
(* unary - fails the constant evaluation (E0080); built without them       *)
(* (release profile) it wraps modulo 2^IntBits.                            *)
(***************************************************************************)
I64Min == -Pow2(IntBits - 1)
I64Max == Pow2(IntBits - 1) - 1
InI64(n) == I64Min <= n /\ n <= I64Max
Wrap(n) == ((n - I64Min) % Pow2(IntBits)) + I64Min

\* struct Unit
Unit(l, m, t) == [length |-> l, mass |-> m, time |-> t]

\* A slip in Unit::add: the mass exponent takes the right operand's time.
Unit_add_mass_slip(self, rhs) ==
  [length |-> Wrap(self.length + rhs.length),
   mass   |-> Wrap(self.mass + rhs.time),
   time   |-> Wrap(self.time + rhs.time)]

\* Unit::add
Unit_add(self, rhs) ==
  [length |-> Wrap(self.length + rhs.length),
   mass   |-> Wrap(self.mass + rhs.mass),
   time   |-> Wrap(self.time + rhs.time)]

\* A slip in Unit::sub: the operands swapped (right minus left).
Unit_sub_swapped(self, rhs) ==
  [length |-> Wrap(rhs.length - self.length),
   mass   |-> Wrap(rhs.mass - self.mass),
   time   |-> Wrap(rhs.time - self.time)]

\* Unit::sub
Unit_sub(self, rhs) ==
  [length |-> Wrap(self.length - rhs.length),
   mass   |-> Wrap(self.mass - rhs.mass),
   time   |-> Wrap(self.time - rhs.time)]

\* A slip in Unit::neg: the time exponent is not negated.
Unit_neg_time_kept(self) ==
  [length |-> Wrap(-self.length),
   mass   |-> Wrap(-self.mass),
   time   |-> self.time]

\* Unit::neg
Unit_neg(self) ==
  [length |-> Wrap(-self.length),
   mass   |-> Wrap(-self.mass),
   time   |-> Wrap(-self.time)]

\* The overflow assertions of the three functions ("attempt to add / subtract /
\* negate with overflow"), present when overflow checks are on.
Unit_add_overflows(self, rhs) ==
  ~(InI64(self.length + rhs.length) /\ InI64(self.mass + rhs.mass)
      /\ InI64(self.time + rhs.time))

Unit_sub_overflows(self, rhs) ==
  ~(InI64(self.length - rhs.length) /\ InI64(self.mass - rhs.mass)
      /\ InI64(self.time - rhs.time))

Unit_neg_overflows(self) ==
  ~(InI64(-self.length) /\ InI64(-self.mass) /\ InI64(-self.time))

\* #[derive(PartialEq, Eq)] on Unit: the equality the type checker uses to
\* decide whether Quantity<U1> and Quantity<U2> are the same type.
Unit_eq(u1, u2) ==
  u1.length = u2.length /\ u1.mass = u2.mass /\ u1.time = u2.time

(***************************************************************************)
(* The quantity! aliases.                                                  *)
(***************************************************************************)
Dimensionless == Unit(0, 0, 0)
Length        == Unit(1, 0, 0)
Mass          == Unit(0, 1, 0)
Time          == Unit(0, 0, 1)
Area          == Unit(2, 0, 0)
Volume        == Unit(3, 0, 0)
Velocity      == Unit(1, 0, -1)
Acceleration  == Unit(1, 0, -2)
Force         == Unit(1, 1, -2)
Frequency     == Unit(0, 0, -1)
Pressure      == Unit(-1, 1, -2)
Energy        == Unit(2, 1, -2)
Power         == Unit(2, 1, -3)

Aliases ==
  {Dimensionless, Length, Mass, Time, Area, Volume, Velocity, Acceleration,
   Force, Frequency, Pressure, Energy, Power}

(***************************************************************************)
(* f64.  A finite value is mag / One with sign `neg`; mag ranges over the  *)
(* representable magnitudes FinMags (MantBits significant bits).  Every    *)
(* operation computes the exact result and rounds it to nearest, ties to   *)
(* even, overflowing to infinity (IEEE 754 default rounding).              *)
(***************************************************************************)
One == Pow2(MantBits - 1)
FinMags == {m * Pow2(k) : m \in 0 .. (Pow2(MantBits) - 1), k \in 0 .. ExpSpan}
MaxMag == (Pow2(MantBits) - 1) * Pow2(ExpSpan)
OverMag == Pow2(MantBits + ExpSpan)

Fin(neg, mag) == [cls |-> "fin", neg |-> neg, mag |-> mag]
Inf(neg) == [cls |-> "inf", neg |-> neg, mag |-> 0]
NaN == [cls |-> "nan", neg |-> FALSE, mag |-> 0]

F64 == {Fin(s, m) : s \in BOOLEAN, m \in FinMags} \cup {Inf(TRUE), Inf(FALSE), NaN}

IsFinite(x) == x.cls = "fin"
Signed(x) == IF x.neg THEN -x.mag ELSE x.mag

\* Round the exact magnitude num/den (den > 0) to the format: pick the binade,
\* truncate to MantBits bits, then round to nearest, ties to even mantissa.
Round(neg, num, den) ==
  IF num >= OverMag * den THEN Inf(neg)
  ELSE LET k    == MinOf({j \in 0 .. ExpSpan : num < Pow2(MantBits + j) * den})
           ulp  == Pow2(k)
           m    == num \div (den * ulp)
           rem2 == 2 * (num - m * den * ulp)
           up   == rem2 > den * ulp \/ (rem2 = den * ulp /\ m % 2 = 1)
           r    == (IF up THEN m + 1 ELSE m) * ulp
       IN  IF r >= OverMag THEN Inf(neg) ELSE Fin(neg, r)

\* unary - on f64
F64Neg(x) == IF x.cls = "nan" THEN NaN ELSE [x EXCEPT !.neg = ~x.neg]

\* + on f64
F64Add(x, y) ==
  IF x.cls = "nan" \/ y.cls = "nan" THEN NaN
  ELSE IF x.cls = "inf" /\ y.cls = "inf" THEN (IF x.neg = y.neg THEN x ELSE NaN)
  ELSE IF x.cls = "inf" THEN x
  ELSE IF y.cls = "inf" THEN y
  ELSE LET s == Signed(x) + Signed(y)
       IN  IF s = 0 THEN Fin(x.neg /\ y.neg, 0)
           ELSE Round(s < 0, Abs(s), 1)

\* - on f64
F64Sub(x, y) ==
  IF x.cls = "nan" \/ y.cls = "nan" THEN NaN
  ELSE IF x.cls = "inf" /\ y.cls = "inf" THEN (IF x.neg # y.neg THEN x ELSE NaN)
  ELSE IF x.cls = "inf" THEN x
  ELSE IF y.cls = "inf" THEN Inf(~y.neg)
  ELSE LET s == Signed(x) - Signed(y)
       IN  IF s = 0 THEN Fin(x.neg /\ ~y.neg, 0)
           ELSE Round(s < 0, Abs(s), 1)

\* * on f64
F64Mul(x, y) ==
  IF x.cls = "nan" \/ y.cls = "nan" THEN NaN
  ELSE LET neg == (x.neg # y.neg)
       IN  IF x.cls = "inf" \/ y.cls = "inf"
           THEN (IF (IsFinite(x) /\ x.mag = 0) \/ (IsFinite(y) /\ y.mag = 0)
                 THEN NaN ELSE Inf(neg))
           ELSE Round(neg, x.mag * y.mag, One)

\* / on f64: a zero divisor gives an infinity or NaN, never a trap.
F64Div(x, y) ==
  IF x.cls = "nan" \/ y.cls = "nan" THEN NaN
  ELSE LET neg == (x.neg # y.neg)
       IN  IF x.cls = "inf" THEN (IF y.cls = "inf" THEN NaN ELSE Inf(neg))
           ELSE IF y.cls = "inf" THEN Fin(neg, 0)
           ELSE IF y.mag = 0 THEN (IF x.mag = 0 THEN NaN ELSE Inf(neg))
           ELSE Round(neg, x.mag * One, y.mag)

(***************************************************************************)
(* struct Quantity<const UNIT: Unit>(f64) and its operator impls.  `unit`  *)
(* is the const generic argument, `value` is field 0.                      *)
(***************************************************************************)
Quantity(u, v) == [unit |-> u, value |-> v]

\* From<f64>::from
Quantity_from(u, value) == Quantity(u, value)

\* Add::add (Output = Self)
Quantity_add(self, rhs) == Quantity(self.unit, F64Add(self.value, rhs.value))

\* A slip in Sub::sub: the output type of Div (LHS_UNIT.sub(RHS_UNIT)).
Quantity_sub_as_div(self, rhs) ==
  Quantity(Unit_sub(self.unit, rhs.unit), F64Sub(self.value, rhs.value))

\* Sub::sub (Output = Self)
Quantity_sub(self, rhs) == Quantity(self.unit, F64Sub(self.value, rhs.value))

\* AddAssign::add_assign: self.0 += rhs.0
Quantity_add_assign(self, rhs) ==
  [self EXCEPT !.value = F64Add(self.value, rhs.value)]

\* A slip in SubAssign::sub_assign: self.0 += rhs.0.
Quantity_sub_assign_adds(self, rhs) ==
  [self EXCEPT !.value = F64Add(self.value, rhs.value)]

\* SubAssign::sub_assign: self.0 -= rhs.0
Quantity_sub_assign(self, rhs) ==
  [self EXCEPT !.value = F64Sub(self.value, rhs.value)]

\* Neg::neg (Output = Self)
Quantity_neg(self) == Quantity(self.unit, F64Neg(self.value))

\* A slip in Mul::mul: Output = Self.
Quantity_mul_keeps_lhs(self, rhs) ==
  Quantity(self.unit, F64Mul(self.value, rhs.value))

\* A slip in Mul::mul: a dimensionless right operand is taken for the factor
\* 1 and the left magnitude returned as it is.
Quantity_mul_skips_dimensionless(self, rhs) ==
  Quantity(Unit_add(self.unit, rhs.unit),
           IF Unit_eq(rhs.unit, Unit(0, 0, 0)) THEN self.value
           ELSE F64Mul(self.value, rhs.value))

\* Mul::mul, Output = Quantity<{ LHS_UNIT.add(RHS_UNIT) }>
Quantity_mul(self, rhs) ==
  Quantity(Unit_add(self.unit, rhs.unit), F64Mul(self.value, rhs.value))

\* A slip in Div::div: the output type of Mul (LHS_UNIT.add(RHS_UNIT)).
Quantity_div_adds(self, rhs) ==
  Quantity(Unit_add(self.unit, rhs.unit), F64Div(self.value, rhs.value))

\* Div::div, Output = Quantity<{ LHS_UNIT.sub(RHS_UNIT) }>
Quantity_div(self, rhs) ==
  Quantity(Unit_sub(self.unit, rhs.unit), F64Div(self.value, rhs.value))

\* A slip in f64 / Quantity: Output = Quantity<UNIT>.
F64_div_quantity_same_unit(self, rhs) ==
  Quantity(rhs.unit, F64Div(self, rhs.value))

\* impl Div<Quantity<UNIT>> for f64, Output = Quantity<{ UNIT.neg() }>
F64_div_quantity(self, rhs) ==
  Quantity(Unit_neg(rhs.unit), F64Div(self, rhs.value))

(***************************************************************************)
(* Display.  Text is a sequence of one-character strings.                  *)
(***************************************************************************)
Digits == <<"0", "1", "2", "3", "4", "5", "6", "7", "8", "9">>

RECURSIVE NatDisplay(_)
NatDisplay(n) ==
  IF n < 10 THEN <<Digits[n + 1]>>
  ELSE NatDisplay(n \div 10) \o <<Digits[(n % 10) + 1]>>

\* Display of an i64 ({length}, {mass}, {time}): a minus sign, then digits.
I64Display(n) == IF n < 0 THEN <<"-">> \o NatDisplay(-n) ELSE NatDisplay(n)

\* {value:0.1} of an f64: sign, integer part, ".", one digit; the exact value
\* is rounded to the nearest tenth, ties to the even digit.  Non-finite
\* values print as NaN, inf, -inf.
F64Display1(x) ==
  IF x.cls = "nan" THEN <<"N", "a", "N">>
  ELSE LET sign == IF x.neg THEN <<"-">> ELSE <<>>
       IN  IF x.cls = "inf" THEN sign \o <<"i", "n", "f">>
           ELSE LET q      == (10 * x.mag) \div One
                    rem2   == 2 * ((10 * x.mag) % One)
                    up     == rem2 > One \/ (rem2 = One /\ q % 2 = 1)
                    tenths == IF up THEN q + 1 ELSE q
                IN  sign \o NatDisplay(tenths \div 10) \o <<".">>
                         \o <<Digits[(tenths % 10) + 1]>>

\* A slip in format_units: the mass and time exponents swapped.
Quantity_format_units_swapped(self) ==
  LET value  == self.value
      length == self.unit.length
      mass   == self.unit.mass
      time   == self.unit.time
  IN  F64Display1(value) \o <<" ", "m", "^">> \o I64Display(length)
        \o <<" ", "k", "g", "^">> \o I64Display(time)
        \o <<" ", "s", "^">> \o I64Display(mass)

\* Quantity::format_units: "{value:0.1} m^{length} kg^{mass} s^{time}"
Quantity_format_units(self) ==
  LET value  == self.value
      length == self.unit.length
      mass   == self.unit.mass
      time   == self.unit.time
  IN  F64Display1(value) \o <<" ", "m", "^">> \o I64Display(length)
        \o <<" ", "k", "g", "^">> \o I64Display(mass)
        \o <<" ", "s", "^">> \o I64Display(time)

(***************************************************************************)
(* A client program: three bindings holding quantities, changed one        *)
(* statement at a time.  A statement the compiler rejects ends the program *)
(* before it runs: E0308 is a type mismatch (the two operands of + - += -= *)
(* are not the same Quantity type), E0080 a failed constant evaluation of  *)
(* the result descriptor.  st.checks tells whether the crate is built with *)
(* overflow checks.                                                        *)
(***************************************************************************)
Regs == {"a", "b", "out"}

Bind(st, d, q) == [st EXCEPT !.reg[d] = q]
Rejected(st, code) == [st EXCEPT !.build = code]

\* let d = Quantity::<u>::from(v)
ExecFrom(st, d, u, v) == Bind(st, d, Quantity_from(u, v))

\* let d = x  (Quantity is Copy)
ExecLet(st, d, x) == Bind(st, d, st.reg[x])

\* let d = x + y: impl Add for Quantity<UNIT> takes rhs: Self
ExecAdd(st, d, x, y) ==
  IF Unit_eq(st.reg[x].unit, st.reg[y].unit)
  THEN Bind(st, d, Quantity_add(st.reg[x], st.reg[y]))
  ELSE Rejected(st, "E0308")

\* let d = x - y
ExecSub(st, d, x, y) ==
  IF Unit_eq(st.reg[x].unit, st.reg[y].unit)
  THEN Bind(st, d, Quantity_sub(st.reg[x], st.reg[y]))
  ELSE Rejected(st, "E0308")

\* x += y
ExecAddAssign(st, x, y) ==
  IF Unit_eq(st.reg[x].unit, st.reg[y].unit)
  THEN Bind(st, x, Quantity_add_assign(st.reg[x], st.reg[y]))
  ELSE Rejected(st, "E0308")

\* x -= y
ExecSubAssign(st, x, y) ==
  IF Unit_eq(st.reg[x].unit, st.reg[y].unit)
  THEN Bind(st, x, Quantity_sub_assign(st.reg[x], st.reg[y]))
  ELSE Rejected(st, "E0308")

\* let d = -x
ExecNeg(st, d, x) == Bind(st, d, Quantity_neg(st.reg[x]))

\* let d = x * y: the bound Quantity<{ LHS_UNIT.add(RHS_UNIT) }>: Sized makes
\* the compiler evaluate the descriptor.
ExecMul(st, d, x, y) ==
  IF st.checks /\ Unit_add_overflows(st.reg[x].unit, st.reg[y].unit)
  THEN Rejected(st, "E0080")
  ELSE Bind(st, d, Quantity_mul(st.reg[x], st.reg[y]))

\* let d = x / y
ExecDiv(st, d, x, y) ==
  IF st.checks /\ Unit_sub_overflows(st.reg[x].unit, st.reg[y].unit)
  THEN Rejected(st, "E0080")
  ELSE Bind(st, d, Quantity_div(st.reg[x], st.reg[y]))

\* let d = f / x  (f: f64)
ExecScalarDiv(st, f, d, x) ==
  IF st.checks /\ Unit_neg_overflows(st.reg[x].unit)
  THEN Rejected(st, "E0080")
  ELSE Bind(st, d, F64_div_quantity(f, st.reg[x]))

\* let s = x.format_units()
ExecFormat(st, x) == [st EXCEPT !.str = Quantity_format_units(st.reg[x])]

(***************************************************************************)
(* State.                                                                  *)
(*   reg, build, str  the program: its bindings, the compiler's verdict,   *)
(*                    the last formatted text                              *)
(*   checks           whether the build has overflow checks on             *)
(*   pre, ev          the bindings before the last statement, and the      *)
(*                    statement                                            *)
(*   rcv              history of the receiver "a": its descriptor when it  *)
(*                    was last bound by something other than + - unary -   *)
(*                    += -=, its value when it was last bound by something *)
(*                    other than += -=, and the operands applied to it by  *)
(*                    += -= since                                          *)
(*   steps            statements run so far                                *)
(*   prog             a scripted program: its name, the statements still   *)
(*                    to run, whether every constructed magnitude was 1.0, *)
(*                    and the bindings it started with ("none": the        *)
(*                    statements are chosen freely)                        *)
(*   mode, twin       a second run of the same statements on other         *)
(*                    operands ("solo": none)                              *)
(***************************************************************************)
VARIABLES reg, build, str, checks, pre, ev, rcv, steps, prog, mode, twin

vars == <<reg, build, str, checks, pre, ev, rcv, steps, prog, mode, twin>>

PosZero == Fin(FALSE, 0)
OneF    == Fin(FALSE, One)

\* Operands the programs are started with.  BigUnit stands for a descriptor
\* at the ends of the exponent range (reachable by repeated squaring).
BigUnit   == Unit(I64Max, 0, I64Min)
InUnits   == {Dimensionless, Time, Pressure, BigUnit}
InMags    == {PosZero, OneF, Fin(TRUE, One + 1), Fin(FALSE, MaxMag)}
TwinUnits == {Dimensionless, BigUnit}
TwinMags  == {OneF, Fin(FALSE, MaxMag)}
ProgUnits == Aliases \cup {BigUnit}
ProgMags  == {OneF, Fin(TRUE, One + 1)}

Main == [reg |-> reg, build |-> build, str |-> str, checks |-> checks]

Stmt(op, d, x, y, f) == [op |-> op, d |-> d, x |-> x, y |-> y, f |-> f]

Running == build = "ok" /\ twin.build = "ok"

FiveOps == {"add", "sub", "neg", "add_assign", "sub_assign"}
Compound == {"add_assign", "sub_assign"}

\* The receiver "a" after statement e took the program to s.
NextRcv(s, e) ==
  IF s.build # "ok" \/ e.d # "a" THEN rcv
  ELSE IF e.op \in Compound
       THEN [rcv EXCEPT !.terms = Append(@, [op |-> e.op, q |-> reg[e.y]])]
  ELSE IF e.op \in FiveOps
       THEN [rcv EXCEPT !.val0 = s.reg["a"].value, !.terms = <<>>]
  ELSE [dim0 |-> s.reg["a"].unit, val0 |-> s.reg["a"].value, terms |-> <<>>]

\* One statement: the program goes to s, the second run (if any) to s2.
Commit(s, e, s2) ==
  /\ reg' = s.reg
  /\ build' = s.build
  /\ str' = s.str
  /\ pre' = reg
  /\ ev' = e
  /\ rcv' = NextRcv(s, e)
  /\ steps' = steps + 1
  /\ prog' = IF prog.todo = <<>> THEN prog
             ELSE [prog EXCEPT !.todo = Tail(@),
                               !.ones = @ /\ (e.op = "from" => e.f = OneF)]
  /\ twin' = IF mode = "solo" THEN twin ELSE s2
  /\ UNCHANGED <<checks, mode>>

\* The second run's operand for a constructed value: the same magnitude under
\* another descriptor, or the same descriptor with another magnitude.
TwinOperands(u, v) ==
  IF mode = "same_mag" THEN {<<u2, v>> : u2 \in TwinUnits}
  ELSE IF mode = "same_unit" THEN {<<u, v2>> : v2 \in TwinMags}
  ELSE {<<u, v>>}

From(d, u, v) ==
  /\ Running
  /\ \E o \in TwinOperands(u, v) :
       Commit(ExecFrom(Main, d, u, v), Stmt("from", d, d, d, v),
              ExecFrom(twin, d, o[1], o[2]))

Let(d, x) ==
  /\ Running
  /\ Commit(ExecLet(Main, d, x), Stmt("let", d, x, x, PosZero), ExecLet(twin, d, x))

Add(d, x, y) ==
  /\ Running
  /\ Commit(ExecAdd(Main, d, x, y), Stmt("add", d, x, y, PosZero),
            ExecAdd(twin, d, x, y))

Sub(d, x, y) ==
  /\ Running
  /\ Commit(ExecSub(Main, d, x, y), Stmt("sub", d, x, y, PosZero),
            ExecSub(twin, d, x, y))

AddAssign(x, y) ==
  /\ Running
  /\ Commit(ExecAddAssign(Main, x, y), Stmt("add_assign", x, x, y, PosZero),
            ExecAddAssign(twin, x, y))

SubAssign(x, y) ==
  /\ Running
  /\ Commit(ExecSubAssign(Main, x, y), Stmt("sub_assign", x, x, y, PosZero),
            ExecSubAssign(twin, x, y))

Neg(d, x) ==
  /\ Running
  /\ Commit(ExecNeg(Main, d, x), Stmt("neg", d, x, x, PosZero), ExecNeg(twin, d, x))

Mul(d, x, y) ==
  /\ Running
  /\ Commit(ExecMul(Main, d, x, y), Stmt("mul", d, x, y, PosZero),
            ExecMul(twin, d, x, y))

Div(d, x, y) ==
  /\ Running
  /\ Commit(ExecDiv(Main, d, x, y), Stmt("div", d, x, y, PosZero),
            ExecDiv(twin, d, x, y))

ScalarDiv(f, d, x) ==
  /\ Running
  /\ \E o \in TwinOperands(Dimensionless, f) :
       Commit(ExecScalarDiv(Main, f, d, x), Stmt("scalar_div", d, x, x, f),
              ExecScalarDiv(twin, o[2], d, x))

Format(x) ==
  /\ Running
  /\ Commit(ExecFormat(Main, x), Stmt("format", x, x, x, PosZero),
            ExecFormat(twin, x))

(***************************************************************************)
(* Spec: every program of at most MaxSteps statements over a receiver a,   *)
(* an operand b and a result out, started from constructed operands.       *)
(***************************************************************************)
Start(a, b) ==
  [reg    |-> [r \in Regs |-> IF r = "a" THEN a ELSE IF r = "b" THEN b
                              ELSE Quantity_from(Dimensionless, PosZero)],
   build  |-> "ok",
   str    |-> <<>>,
   checks |-> checks]

InitWith(a, b) ==
  /\ checks \in BOOLEAN
  /\ reg = Start(a, b).reg
  /\ build = "ok"
  /\ str = <<>>
  /\ pre = reg
  /\ ev = Stmt("from", "a", "a", "a", a.value)
  /\ rcv = [dim0 |-> a.unit, val0 |-> a.value, terms |-> <<>>]
  /\ steps = 0

NoProg == [name |-> "none", todo |-> <<>>, ones |-> FALSE, start |-> reg]

Init ==
  /\ \E ua \in InUnits, ub \in InUnits, va \in InMags, vb \in InMags :
       InitWith(Quantity_from(ua, va), Quantity_from(ub, vb))
  /\ prog = NoProg
  /\ mode = "solo"
  /\ twin = Main

Free == steps < MaxSteps /\ prog.name = "none"

StmtAdd == Free /\ \E d \in {"a", "out"} : Add(d, "a", "b")
StmtSub == Free /\ \E d \in {"a", "out"} : Sub(d, "a", "b")
StmtNeg == Free /\ \E d \in {"a", "out"} : Neg(d, "a")
StmtAddAssign == Free /\ AddAssign("a", "b")
StmtSubAssign == Free /\ SubAssign("a", "b")
StmtMul == Free /\ Mul("out", "a", "b")
StmtDiv == Free /\ Div("out", "a", "b")
StmtScalarDiv ==
  Free /\ \E f \in (IF mode = "solo" THEN InMags ELSE TwinMags) :
            ScalarDiv(f, "out", "a")
StmtFormat == Free /\ Format("a")
StmtLet == Free /\ \E d \in {"a", "b"} : Let(d, "out")

Next ==
  \/ StmtAdd \/ StmtSub \/ StmtNeg \/ StmtAddAssign \/ StmtSubAssign
  \/ StmtMul \/ StmtDiv \/ StmtScalarDiv \/ StmtFormat \/ StmtLet

Spec == Init /\ [][Next]_vars

(***************************************************************************)
(* SpecTwin: the same programs run twice, statement by statement, on       *)
(* operands that agree in magnitude and differ in descriptor (same_mag),   *)
(* or agree in descriptor and differ in magnitude (same_unit).             *)
(***************************************************************************)
InitTwin ==
  /\ \E ua \in TwinUnits, ub \in TwinUnits, va \in TwinMags, vb \in TwinMags :
       /\ InitWith(Quantity_from(ua, va), Quantity_from(ub, vb))
       /\ \/ /\ mode = "same_mag"
             /\ \E ua2 \in TwinUnits, ub2 \in TwinUnits :
                  twin = Start(Quantity_from(ua2, va), Quantity_from(ub2, vb))
          \/ /\ mode = "same_unit"
             /\ \E va2 \in TwinMags, vb2 \in TwinMags :
                  twin = Start(Quantity_from(ua, va2), Quantity_from(ub, vb2))
  /\ prog = NoProg

StmtFrom ==
  Free /\ \E u \in TwinUnits, v \in TwinMags : From("b", u, v)

NextTwin == Next \/ StmtFrom

SpecTwin == InitTwin /\ [][NextTwin]_vars

(***************************************************************************)
(* SpecProg: scripted programs.  The derivations are those of the tests    *)
(* (length .. power), with the magnitudes left open; the identities start  *)
(* from two constructed operands a and b.                                  *)
(***************************************************************************)
Ins(op, d, x, y) == [op |-> op, d |-> d, x |-> x, y |-> y, u |-> Dimensionless]
New(d, u) == [op |-> "from", d |-> d, x |-> d, y |-> d, u |-> u]

\* let energy = (length * length) * mass / (time * time);
EnergyCode ==
  << New("a", Length), Ins("mul", "a", "a", "a"),
     New("b", Mass), Ins("mul", "a", "a", "b"),
     New("b", Time), Ins("mul", "b", "b", "b"),
     Ins("div", "out", "a", "b") >>

Derivations ==
  [ length       |-> << New("a", Length), Ins("div", "out", "a", "a") >>,
    area         |-> << New("a", Length), Ins("mul", "out", "a", "a") >>,
    volume       |-> << New("a", Length), Ins("mul", "out", "a", "a"),
                        Ins("mul", "out", "out", "a") >>,
    velocity     |-> << New("a", Length), New("b", Time),
                        Ins("div", "out", "a", "b") >>,
    acceleration |-> << New("a", Length), New("b", Time),
                        Ins("mul", "b", "b", "b"), Ins("div", "out", "a", "b") >>,
    velocity_per_time |->
                     << New("a", Length), New("b", Time),
                        Ins("div", "a", "a", "b"), Ins("div", "out", "a", "b") >>,
    force        |-> << New("a", Length), New("b", Time),
                        Ins("mul", "b", "b", "b"), Ins("div", "a", "a", "b"),
                        New("b", Mass), Ins("mul", "out", "b", "a") >>,
    frequency    |-> << New("a", Time), Ins("scalar_div", "out", "a", "a") >>,
    pressure     |-> << New("a", Length), Ins("scalar_div", "a", "a", "a"),
                        New("b", Mass), Ins("mul", "a", "a", "b"),
                        New("b", Time), Ins("mul", "b", "b", "b"),
                        Ins("div", "out", "a", "b") >>,
    energy       |-> EnergyCode,
    power        |-> EnergyCode \o
                     << New("b", Time), Ins("div", "out", "out", "b") >> ]

Identities ==
  [ mul_div     |-> << Ins("mul", "out", "a", "b"), Ins("div", "out", "out", "b") >>,
    div_mul     |-> << Ins("div", "out", "a", "b"), Ins("mul", "out", "out", "b") >>,
    mul_comm    |-> << Ins("mul", "out", "a", "b"), Ins("mul", "a", "b", "a") >>,
    self_div    |-> << Ins("div", "out", "a", "a") >>,
    inv_inv     |-> << Ins("scalar_div", "out", "a", "a"),
                       Ins("scalar_div", "out", "out", "out") >>,
    div_mul_inv |-> << Ins("div", "out", "a", "b"),
                       Ins("scalar_div", "b", "b", "b"),
                       Ins("mul", "a", "a", "b") >> ]

InitProg ==
  /\ \/ /\ InitWith(Quantity_from(Dimensionless, PosZero),
                    Quantity_from(Dimensionless, PosZero))
        /\ \E n \in DOMAIN Derivations :
             prog = [name |-> n, todo |-> Derivations[n], ones |-> TRUE,
                     start |-> reg]
     \/ /\ \E ua \in ProgUnits, ub \in ProgUnits, va \in ProgMags, vb \in ProgMags :
             InitWith(Quantity_from(ua, va), Quantity_from(ub, vb))
        /\ \E n \in DOMAIN Identities :
             prog = [name |-> n, todo |-> Identities[n], ones |-> FALSE,
                     start |-> reg]
  /\ mode = "solo"
  /\ twin = Main

Todo(op) == prog.todo # <<>> /\ Head(prog.todo).op = op

RunFrom ==
  /\ Todo("from")
  /\ \E v \in ProgMags : From(Head(prog.todo).d, Head(prog.todo).u, v)

RunMul ==
  /\ Todo("mul")
  /\ Mul(Head(prog.todo).d, Head(prog.todo).x, Head(prog.todo).y)

RunDiv ==
  /\ Todo("div")
  /\ Div(Head(prog.todo).d, Head(prog.todo).x, Head(prog.todo).y)

\* the scalar of the scripted programs is the literal 1.0
RunScalarDiv ==
  /\ Todo("scalar_div")
  /\ ScalarDiv(OneF, Head(prog.todo).d, Head(prog.todo).x)

NextProg == RunFrom \/ RunMul \/ RunDiv \/ RunScalarDiv

SpecProg == InitProg /\ [][NextProg]_vars

Done == prog.name # "none" /\ prog.todo = <<>> /\ build = "ok"

(***************************************************************************)
(* Properties.  The expected descriptors are written with exact integer    *)
(* arithmetic, independently of Unit::add / sub / neg.                     *)
(***************************************************************************)
SameUnit(u1, u2) ==
  u1.length = u2.length /\ u1.mass = u2.mass /\ u1.time = u2.time
SumUnit(u1, u2) ==
  [length |-> u1.length + u2.length, mass |-> u1.mass + u2.mass,
   time |-> u1.time + u2.time]
DiffUnit(u1, u2) ==
  [length |-> u1.length - u2.length, mass |-> u1.mass - u2.mass,
   time |-> u1.time - u2.time]
FlipUnit(u) == [length |-> 0 - u.length, mass |-> 0 - u.mass, time |-> 0 - u.time]
InRange(u) ==
  \A n \in {u.length, u.mass, u.time} : -Pow2(IntBits - 1) <= n /\ n < Pow2(IntBits - 1)

Lhs == pre[ev.x]
Rhs == pre[ev.y]
Res == reg[ev.d]
Others(r) == \A o \in Regs \ {r} : reg[o] = pre[o]

\* C1: add, subtract, add_in_place and subtract_in_place apply only to two
\* operands with componentwise equal descriptors (otherwise the program is
\* rejected at build with a type mismatch and nothing runs); when they apply,
\* the result or the mutated receiver has that same descriptor; negate always
\* applies and keeps the descriptor; none of the five evaluates a descriptor;
\* and the receiver keeps, through any sequence of the five, the descriptor it
\* was bound with.
C1_SameDimension ==
  /\ ev.op \in {"add", "sub", "add_assign", "sub_assign"} =>
       IF SameUnit(Lhs.unit, Rhs.unit)
       THEN build = "ok" /\ SameUnit(Res.unit, Lhs.unit) /\ Others(ev.d)
       ELSE build = "E0308" /\ reg = pre
  /\ ev.op = "neg" => build = "ok" /\ SameUnit(Res.unit, Lhs.unit)
  /\ build = "ok" => SameUnit(reg["a"].unit, rcv.dim0)

C1_Witness ==
  /\ steps = 2 /\ build = "ok"
  /\ ev.op = "neg" /\ ev.d = "a"
  /\ Len(rcv.terms) = 0 /\ rcv.val0 # pre["a"].value
  /\ reg["a"].unit = Time /\ rcv.dim0 = Time

\* C2 as stated: for every pair of operands, multiply is defined and its
\* descriptor is the componentwise sum, its magnitude the product.
C2_Original ==
  ev.op = "mul" =>
    /\ build = "ok"
    /\ SameUnit(Res.unit, SumUnit(Lhs.unit, Rhs.unit))
    /\ Res.value = F64Mul(Lhs.value, Rhs.value)

\* C2 amended: for every pair of operands whose componentwise exponent sums
\* lie within the exponent type's range (equal descriptors or not), multiply
\* is defined, its descriptor is the componentwise sum and its magnitude the
\* f64 product; no pair is rejected as a type mismatch, and nothing but the
\* result binding changes.
C2_MulInRange ==
  ev.op = "mul" =>
    /\ build # "E0308"
    /\ InRange(SumUnit(Lhs.unit, Rhs.unit)) =>
         /\ build = "ok"
         /\ SameUnit(Res.unit, SumUnit(Lhs.unit, Rhs.unit))
         /\ Res.value = F64Mul(Lhs.value, Rhs.value)
         /\ Others(ev.d)

C2_Witness ==
  /\ ev.op = "mul" /\ build = "ok"
  /\ Lhs.unit = Time /\ Rhs.unit = Pressure
  /\ reg["out"].unit = Unit(-1, 1, -1)
  /\ Lhs.value = Fin(TRUE, One + 1) /\ Rhs.value = Fin(FALSE, MaxMag)
  /\ reg["out"].value = Inf(TRUE)

\* C3 as stated: for every pair of operands, divide is defined, its descriptor
\* is the componentwise difference left minus right, its magnitude the
\* quotient, a zero divisor giving no error.
C3_Original ==
  ev.op = "div" =>
    /\ build = "ok"
    /\ SameUnit(Res.unit, DiffUnit(Lhs.unit, Rhs.unit))
    /\ Res.value = F64Div(Lhs.value, Rhs.value)

\* C3 amended: for every pair of operands whose componentwise exponent
\* differences (left minus right) lie within the exponent type's range, divide
\* is defined, its descriptor is that difference and its magnitude the f64
\* quotient; a zero divisor is not intercepted: the quotient is then an
\* infinity or NaN and the program goes on.
C3_DivInRange ==
  ev.op = "div" =>
    /\ build # "E0308"
    /\ InRange(DiffUnit(Lhs.unit, Rhs.unit)) =>
         /\ build = "ok"
         /\ SameUnit(Res.unit, DiffUnit(Lhs.unit, Rhs.unit))
         /\ Res.value = F64Div(Lhs.value, Rhs.value)
         /\ (Rhs.value.cls = "fin" /\ Rhs.value.mag = 0) =>
              Res.value.cls \in {"inf", "nan"}
         /\ Others(ev.d)

C3_Witness ==
  /\ ev.op = "div" /\ build = "ok"
  /\ Lhs.unit = Dimensionless /\ Rhs.unit = Pressure
  /\ reg["out"].unit = Unit(1, -1, 2)
  /\ Rhs.value = PosZero /\ Lhs.value = Fin(TRUE, One + 1)
  /\ reg["out"].value = Inf(TRUE)

\* The same division done as Dimensionless::from(f) / q with the
\* quantity / quantity operator, from the state before the last statement.
ViaDimensionless ==
  LET t  == CHOOSE r \in Regs : r # ev.x /\ r # ev.d
      s0 == [reg    |-> [pre EXCEPT ![t] = Quantity_from(Dimensionless, ev.f)],
             build  |-> "ok", str |-> str, checks |-> checks]
  IN  ExecDiv(s0, ev.d, t, ev.x)

\* C4 as stated: for every f and every q, f / q has the sign-flipped
\* descriptor and equals Dimensionless::from(f) / q.
C4_Original ==
  ev.op = "scalar_div" =>
    /\ build = "ok"
    /\ SameUnit(Res.unit, FlipUnit(Lhs.unit))
    /\ Res = ViaDimensionless.reg[ev.d]

\* C4 amended: for every f and every q, f / q and Dimensionless::from(f) / q
\* have the same outcome (the same descriptor and magnitude, or both are
\* rejected); for every q whose sign-flipped exponents lie within the
\* exponent type's range the descriptor is negate(D) with magnitude f / q.0.
\* In particular 1.0 / Time is a Frequency.
C4_ScalarDiv ==
  ev.op = "scalar_div" =>
    /\ build = ViaDimensionless.build
    /\ build = "ok" => Res = ViaDimensionless.reg[ev.d]
    /\ InRange(FlipUnit(Lhs.unit)) =>
         /\ build = "ok"
         /\ SameUnit(Res.unit, FlipUnit(Lhs.unit))
         /\ Res.value = F64Div(ev.f, Lhs.value)
    /\ Lhs.unit = Time => build = "ok" /\ Res.unit = Frequency

C4_Witness ==
  /\ ev.op = "scalar_div" /\ build = "ok"
  /\ ev.f = OneF /\ Lhs = Quantity(Time, Fin(FALSE, MaxMag))
  /\ reg["out"].unit = Frequency
  /\ reg["out"].value.cls = "fin" /\ reg["out"].value.mag > 0

\* The descriptor each derivation must end with.
Expected ==
  [ length            |-> Unit(0, 0, 0),
    area              |-> Unit(2, 0, 0),
    volume            |-> Unit(3, 0, 0),
    velocity          |-> Unit(1, 0, -1),
    acceleration      |-> Unit(1, 0, -2),
    velocity_per_time |-> Unit(1, 0, -2),
    force             |-> Unit(1, 1, -2),
    frequency         |-> Unit(0, 0, -1),
    pressure          |-> Unit(-1, 1, -2),
    energy            |-> Unit(2, 1, -2),
    power             |-> Unit(2, 1, -3) ]

AliasTriples ==
  /\ Dimensionless = Unit(0, 0, 0) /\ Length = Unit(1, 0, 0)
  /\ Mass = Unit(0, 1, 0) /\ Time = Unit(0, 0, 1)
  /\ Area = Unit(2, 0, 0) /\ Volume = Unit(3, 0, 0)
  /\ Velocity = Unit(1, 0, -1) /\ Acceleration = Unit(1, 0, -2)
  /\ Force = Unit(1, 1, -2) /\ Frequency = Unit(0, 0, -1)
  /\ Pressure = Unit(-1, 1, -2) /\ Energy = Unit(2, 1, -2)
  /\ Power = Unit(2, 1, -3)

\* C5: with the aliases at the listed exponent triples, every derivation
\* (Length/Length, Length*Length, Length*Length*Length, Length/Time,
\* Velocity/Time, Length/(Time*Time), Mass*Acceleration, 1.0/Time,
\* (1.0/Length)*Mass/(Time*Time), (Length*Length)*Mass/(Time*Time),
\* Energy/Time) builds and ends, for every magnitude, in the alias physics
\* names; with all magnitudes 1.0 the result is Alias::from(1.0).
C5_Derivations ==
  /\ AliasTriples
  /\ (prog.name \in DOMAIN Derivations /\ prog.todo = <<>>) =>
       /\ build = "ok"
       /\ SameUnit(reg["out"].unit, Expected[prog.name])
       /\ \E alias \in Aliases : reg["out"].unit = alias
       /\ prog.ones => reg["out"] = Quantity_from(Expected[prog.name], OneF)
  /\ (prog.name \in DOMAIN Derivations) => build = "ok"

C5_Witness ==
  /\ prog.name = "pressure" /\ prog.todo = <<>> /\ build = "ok"
  /\ ~prog.ones
  /\ reg["out"].unit = Pressure
  /\ steps = 7

\* C6 as stated: the descriptor operations are total and exact for all
\* exponent inputs, the extreme values of the exponent type included, so
\* multiply, divide and scalar / quantity always succeed at the type level.
C6_Original ==
  /\ ev.op = "mul" =>
       build = "ok" /\ SameUnit(Res.unit, SumUnit(Lhs.unit, Rhs.unit))
  /\ ev.op = "div" =>
       build = "ok" /\ SameUnit(Res.unit, DiffUnit(Lhs.unit, Rhs.unit))
  /\ ev.op = "scalar_div" =>
       build = "ok" /\ SameUnit(Res.unit, FlipUnit(Lhs.unit))

\* The exact descriptor the last multiply, divide or scalar / quantity asks for.
Asked ==
  IF ev.op = "mul" THEN SumUnit(Lhs.unit, Rhs.unit)
  ELSE IF ev.op = "div" THEN DiffUnit(Lhs.unit, Rhs.unit)
  ELSE FlipUnit(Lhs.unit)

\* C6 amended: add, subtract and negate return the exact componentwise sum,
\* difference or sign flip for all exponent inputs whose exact result lies
\* within the exponent type's range, and multiply, divide and scalar /
\* quantity then succeed at the type level.  When a component of the exact
\* result is out of range the operation overflows: with overflow checks the
\* program is rejected at build (nothing runs), without them the component
\* wraps modulo 2^IntBits.
C6_TotalInRange ==
  ev.op \in {"mul", "div", "scalar_div"} =>
    IF InRange(Asked)
    THEN build = "ok" /\ SameUnit(Res.unit, Asked)
    ELSE IF checks
    THEN build = "E0080" /\ reg = pre
    ELSE /\ build = "ok"
         /\ InRange(Res.unit)
         /\ (Res.unit.length - Asked.length) % Pow2(IntBits) = 0
         /\ (Res.unit.mass - Asked.mass) % Pow2(IntBits) = 0
         /\ (Res.unit.time - Asked.time) % Pow2(IntBits) = 0

C6_Witness ==
  /\ ev.op = "mul" /\ build = "ok" /\ checks
  /\ Lhs.unit = BigUnit /\ Rhs.unit = Time
  /\ reg["out"].unit = Unit(Pow2(IntBits - 1) - 1, 0, 1 - Pow2(IntBits - 1))

\* The receiver's value rebuilt with the non-assigning operators, applied in
\* the order the compound assignments were made.
RECURSIVE Folded(_, _)
Folded(q, terms) ==
  IF terms = <<>> THEN q
  ELSE Folded(IF Head(terms).op = "add_assign"
              THEN Quantity_add(q, Head(terms).q)
              ELSE Quantity_sub(q, Head(terms).q),
              Tail(terms))

DigitChars == {Digits[i] : i \in 1 .. 10}
DigitVal(c) == (CHOOSE i \in 1 .. 10 : Digits[i] = c) - 1
AllDigits(cs) == cs # <<>> /\ \A i \in 1 .. Len(cs) : cs[i] \in DigitChars

RECURSIVE ReadNat(_)
ReadNat(cs) ==
  IF cs = <<>> THEN 0
  ELSE 10 * ReadNat(SubSeq(cs, 1, Len(cs) - 1)) + DigitVal(cs[Len(cs)])

\* cs is a decimal integer with value n
ReadsAsInt(cs, n) ==
  IF cs # <<>> /\ Head(cs) = "-"
  THEN AllDigits(Tail(cs)) /\ n < 0 /\ ReadNat(Tail(cs)) = -n
  ELSE AllDigits(cs) /\ n >= 0 /\ ReadNat(cs) = n

Spaces(s) == {i \in 1 .. Len(s) : s[i] = " "}
Field(s, k) ==
  LET cuts == Spaces(s) \cup {0, Len(s) + 1}
      from == CHOOSE i \in cuts : Cardinality({j \in cuts : j < i}) = k - 1
      to   == CHOOSE i \in cuts : Cardinality({j \in cuts : j < i}) = k
  IN  SubSeq(s, from + 1, to - 1)

\* cs is `prefix` followed by the decimal integer n
TaggedInt(cs, prefix, n) ==
  /\ Len(cs) > Len(prefix)
  /\ SubSeq(cs, 1, Len(prefix)) = prefix
  /\ ReadsAsInt(SubSeq(cs, Len(prefix) + 1, Len(cs)), n)

\* cs renders the f64 x to one decimal place: a sign for a negative value,
\* digits, a point and one digit, the tenths nearest to x; NaN, inf and -inf
\* for the non-finite values.
OneDecimal(cs, x) ==
  IF x.cls = "nan" THEN cs = <<"N", "a", "N">>
  ELSE IF x.cls = "inf"
  THEN cs = (IF x.neg THEN <<"-">> ELSE <<>>) \o <<"i", "n", "f">>
  ELSE LET body == IF x.neg THEN Tail(cs) ELSE cs
           n    == Len(body)
       IN  /\ x.neg => Head(cs) = "-"
           /\ n >= 3
           /\ body[n - 1] = "."
           /\ AllDigits(SubSeq(body, 1, n - 2))
           /\ body[n] \in DigitChars
           /\ LET tenths == 10 * ReadNat(SubSeq(body, 1, n - 2)) + DigitVal(body[n])
              IN  2 * Abs(10 * x.mag - tenths * One) <= One

\* C8: format_units of a quantity with descriptor (L, M, T) is the magnitude
\* to one decimal place followed by " m^<L> kg^<M> s^<T>": three
\* space-separated fields after the magnitude, tagged m^, kg^, s^ in that
\* order and holding the length, mass and time exponents (with a sign when
\* negative); a Length of 1.0 gives "1.0 m^1 kg^0 s^0"; formatting changes no
\* binding.
C8_FormatUnits ==
  ev.op = "format" =>
    /\ build = "ok" /\ reg = pre
    /\ Cardinality(Spaces(str)) = 3
    /\ OneDecimal(Field(str, 1), Lhs.value)
    /\ TaggedInt(Field(str, 2), <<"m", "^">>, Lhs.unit.length)
    /\ TaggedInt(Field(str, 3), <<"k", "g", "^">>, Lhs.unit.mass)
    /\ TaggedInt(Field(str, 4), <<"s", "^">>, Lhs.unit.time)
    /\ Lhs = Quantity(Length, OneF) =>
         str = << "1", ".", "0", " ", "m", "^", "1", " ",
                  "k", "g", "^", "0", " ", "s", "^", "0" >>

C8_Witness ==
  /\ ev.op = "format" /\ build = "ok" /\ steps = 2
  /\ reg["a"].unit = Unit(7, 0, -8)
  /\ reg["a"].value = Fin(TRUE, 0)
  /\ str = << "-", "0", ".", "0", " ", "m", "^", "7", " ",
              "k", "g", "^", "0", " ", "s", "^", "-", "8" >>

\* C9: two runs of the same statements on operands with the same magnitudes
\* and different descriptors end with the same magnitude in every binding;
\* on operands with the same descriptors and different magnitudes they have
\* the same build outcome and the same descriptor in every binding.
C9_Independence ==
  /\ (mode = "same_mag" /\ build = "ok" /\ twin.build = "ok") =>
       \A r \in Regs : reg[r].value = twin.reg[r].value
  /\ mode = "same_unit" =>
       /\ build = twin.build
       /\ \A r \in Regs : SameUnit(reg[r].unit, twin.reg[r].unit)

C9_Witness ==
  /\ mode = "same_mag" /\ build = "ok" /\ twin.build = "ok"
  /\ steps = 2 /\ ev.op = "mul"
  /\ ~SameUnit(reg["out"].unit, twin.reg["out"].unit)
  /\ reg["a"].unit # twin.reg["a"].unit
  /\ reg["out"].value # pre["out"].value

\* C10: on descriptors, (a*b)/b and (a/b)*b have a's descriptor, a*b and b*a
\* the same one, q/q is Dimensionless for every q, 1.0/(1.0/q) has q's
\* descriptor, and a/b has the descriptor of a*(1.0/b), whenever the program
\* builds (all its descriptors within range); q/q always builds.
C10_MulDivInverse ==
  /\ Done =>
       /\ prog.name \in {"mul_div", "div_mul", "inv_inv"} =>
            SameUnit(reg["out"].unit, prog.start["a"].unit)
       /\ prog.name \in {"mul_comm", "div_mul_inv"} =>
            SameUnit(reg["a"].unit, reg["out"].unit)
       /\ prog.name = "self_div" => SameUnit(reg["out"].unit, Unit(0, 0, 0))
  /\ (prog.name = "self_div" /\ prog.todo = <<>>) => build = "ok"

C10_Witness ==
  /\ Done /\ prog.name = "div_mul_inv" /\ checks
  /\ prog.start["a"].unit = Force /\ prog.start["b"].unit = Power
  /\ reg["out"].unit = Unit(-1, 0, 1)
  /\ reg["a"].unit = reg["out"].unit

====
